---- MODULE Spec2Model ----
(***************************************************************************)
(* Slot-booking engine of the home-services backend                        *)
(* (backend/app/api.py, backend/app/database.py).                          *)
(*                                                                         *)
(* Time strings are sequences of one-character strings, so that parsing    *)
(* ("%H:%M" of strptime) and formatting (strftime) are real conversions.   *)
(* Times of day stored in the database are minutes since midnight (the     *)
(* value of a TIME column); dates are day numbers.                         *)
(***************************************************************************)
EXTENDS Integers, Sequences, FiniteSets, Bags, TLC

----------------------------------------------------------------------------
(* Bounds of the model                                                     *)

\* number of booking ids the sequence hands out in one behaviour
MaxBookings == 2
\* largest duration fed to the slot calculator on its own
MaxDuration == 130
\* largest slot count fed to generate_slot_times on its own
MaxCount == 21

----------------------------------------------------------------------------
(* Program constants                                                       *)

SlotMinutes == 30
MaxSlotsPerDay == 20
max_days == 30
DayMinutes == 1440
\* datetime.now().date(), as a day number: day 0 is yesterday
Today == 1

----------------------------------------------------------------------------
(* Time strings: datetime.strptime(s, "%H:%M") and strftime("%H:%M")       *)

DigitChars == <<"0", "1", "2", "3", "4", "5", "6", "7", "8", "9">>

IsDigit(c) == \E i \in 1..10 : DigitChars[i] = c

DigitVal(c) == (CHOOSE i \in 1..10 : DigitChars[i] = c) - 1

\* value of a field of one or two digits, -1 when it is not such a field
FieldVal(f) ==
    IF Len(f) = 1 /\ IsDigit(f[1]) THEN DigitVal(f[1])
    ELSE IF Len(f) = 2 /\ IsDigit(f[1]) /\ IsDigit(f[2])
         THEN 10 * DigitVal(f[1]) + DigitVal(f[2])
         ELSE -1

\* strptime(s, "%H:%M"): minutes since midnight, or -1 for ValueError.
\* %H is 2[0-3]|[0-1]\d|\d and %M is [0-5]\d|\d, the whole string is consumed.
StrpTime(s) ==
    LET colons == {i \in 1..Len(s) : s[i] = ":"}
    IN  IF Cardinality(colons) # 1 THEN -1
        ELSE LET c == CHOOSE i \in colons : TRUE
                 h == FieldVal(SubSeq(s, 1, c - 1))
                 m == FieldVal(SubSeq(s, c + 1, Len(s)))
             IN  IF h >= 0 /\ h <= 23 /\ m >= 0 /\ m <= 59
                 THEN 60 * h + m
                 ELSE -1

TwoDigits(n) == <<DigitChars[(n \div 10) + 1], DigitChars[(n % 10) + 1]>>

\* strftime("%H:%M") of a time of day given in minutes since midnight
StrfTime(mins) == TwoDigits(mins \div 60) \o <<":">> \o TwoDigits(mins % 60)

----------------------------------------------------------------------------
(* Slot calculator                                                         *)

\* validate_time_slot taking quarter hours for slot boundaries
validate_time_slot_quarters(time_str) ==
    LET t == StrpTime(time_str)
    IN  IF t < 0 THEN <<FALSE, "Invalid time format. Use HH:MM">>
        ELSE IF (t % 60) \notin {0, 15, 30, 45}
             THEN <<FALSE, "Time slots must be on 30-minute boundaries">>
             ELSE <<TRUE, "">>

\* validate_time_slot: <<valid, error>>
validate_time_slot(time_str) ==
    LET t == StrpTime(time_str)
    IN  IF t < 0 THEN <<FALSE, "Invalid time format. Use HH:MM">>
        ELSE IF (t % 60) \notin {0, 30}
             THEN <<FALSE, "Time slots must be on 30-minute boundaries">>
             ELSE <<TRUE, "">>

\* calculate_required_slots with // in place of math.ceil(... / ...)
calculate_required_slots_floor(duration_minutes) ==
    duration_minutes \div SlotMinutes

\* math.ceil(duration_minutes / 30)
calculate_required_slots(duration_minutes) ==
    -((-duration_minutes) \div SlotMinutes)

\* generate_slot_times stepping before it appends
generate_slot_times_late(start_time, num_slots) ==
    LET current == StrpTime(start_time)
    IN  [i \in 1..num_slots |->
            StrfTime((current + SlotMinutes * i) % DayMinutes)]

\* generate_slot_times: the datetime runs on past midnight and strftime keeps
\* only its time of day
generate_slot_times(start_time, num_slots) ==
    LET current == StrpTime(start_time)
    IN  [i \in 1..num_slots |->
            StrfTime((current + SlotMinutes * (i - 1)) % DayMinutes)]

----------------------------------------------------------------------------
(* The store                                                               *)

VARIABLES
    service_packages,      \* package_id -> [duration_minutes, package_type]
    bundle_items,          \* set of [bundle_package_id, included_package_id]
    service_providers,     \* provider_id -> working hours, capacity, active flag
    provider_services,     \* set of [provider_id, package_id, is_available]
    provider_availability, \* set of [provider_id, date, start_time, end_time, is_available]
    customer_users,        \* ids of the users holding the role 'customer'
    urgent_work_items,     \* urgent_item_id -> is_resolved
    bookings,              \* set of committed Booking rows
    booking_time_slots,    \* sequence of committed BookingTimeSlot rows
    booking_urgent_items,  \* set of committed [booking_id, urgent_item_id]
    booking_seq,           \* last value of the booking_id sequence
    last,                  \* the create_booking call that ran last (sequential use)
    procs,                 \* the create_booking calls in flight (concurrent use)
    calc                   \* last call of a slot-calculator function on its own

catalog == <<service_packages, bundle_items, service_providers,
             provider_services, provider_availability, customer_users>>

tables == <<urgent_work_items, bookings, booking_time_slots,
            booking_urgent_items>>

vars == <<catalog, tables, booking_seq, last, procs, calc>>

Hour(h) == 60 * h

InitCatalog ==
    /\ service_packages =
         (1 :> [duration_minutes |-> 90,  package_type |-> "single"]) @@
         (2 :> [duration_minutes |-> 750, package_type |-> "single"]) @@
         (3 :> [duration_minutes |-> 60,  package_type |-> "bundle"]) @@
         (4 :> [duration_minutes |-> 45,  package_type |-> "single"]) @@
         (5 :> [duration_minutes |-> SlotMinutes * (max_days + 1),
                package_type |-> "single"]) @@
         (6 :> [duration_minutes |-> 120, package_type |-> "bundle"]) @@
         (7 :> [duration_minutes |-> 60,  package_type |-> "bundle"]) @@
         (8 :> [duration_minutes |-> 60,  package_type |-> "bundle"]) @@
         (10 :> [duration_minutes |-> 30, package_type |-> "single"]) @@
         (11 :> [duration_minutes |-> 30, package_type |-> "single"]) @@
         (12 :> [duration_minutes |-> SlotMinutes * (MaxSlotsPerDay * max_days + 1),
                 package_type |-> "single"])
    /\ bundle_items =
         { [bundle_package_id |-> 3, included_package_id |-> 1],
           [bundle_package_id |-> 3, included_package_id |-> 4],
           [bundle_package_id |-> 6, included_package_id |-> 4],
           [bundle_package_id |-> 6, included_package_id |-> 10],
           [bundle_package_id |-> 6, included_package_id |-> 11],
           [bundle_package_id |-> 8, included_package_id |-> 10],
           [bundle_package_id |-> 8, included_package_id |-> 11] }
    /\ service_providers =
         (1 :> [working_hours_start |-> Hour(9), working_hours_end |-> Hour(17),
                max_concurrent_jobs |-> 1, is_active |-> TRUE]) @@
         (2 :> [working_hours_start |-> Hour(8), working_hours_end |-> Hour(17),
                max_concurrent_jobs |-> 2, is_active |-> TRUE]) @@
         (3 :> [working_hours_start |-> Hour(9), working_hours_end |-> Hour(17),
                max_concurrent_jobs |-> 1, is_active |-> TRUE]) @@
         (4 :> [working_hours_start |-> Hour(9), working_hours_end |-> Hour(17),
                max_concurrent_jobs |-> 1, is_active |-> FALSE])
    /\ provider_services =
         { [provider_id |-> 1, package_id |-> 1, is_available |-> TRUE],
           [provider_id |-> 1, package_id |-> 2, is_available |-> TRUE],
           [provider_id |-> 1, package_id |-> 4, is_available |-> TRUE],
           [provider_id |-> 2, package_id |-> 1, is_available |-> TRUE],
           [provider_id |-> 2, package_id |-> 4, is_available |-> FALSE],
           [provider_id |-> 1, package_id |-> 10, is_available |-> TRUE],
           [provider_id |-> 1, package_id |-> 11, is_available |-> TRUE],
           [provider_id |-> 2, package_id |-> 10, is_available |-> TRUE],
           [provider_id |-> 2, package_id |-> 11, is_available |-> TRUE],
           [provider_id |-> 3, package_id |-> 10, is_available |-> TRUE] }
         \cup { [provider_id |-> 4, package_id |-> k, is_available |-> TRUE] :
                 k \in {1, 2, 4, 5, 10, 11} }
    /\ provider_availability =
         { [provider_id |-> 2, date |-> 0, start_time |-> Hour(10),
            end_time |-> Hour(11), is_available |-> FALSE],
           [provider_id |-> 1, date |-> 0, start_time |-> Hour(9),
            end_time |-> Hour(17), is_available |-> TRUE],
           [provider_id |-> 2, date |-> 0, start_time |-> Hour(9) + 15,
            end_time |-> Hour(9) + SlotMinutes, is_available |-> FALSE] }
         \cup { [provider_id |-> 3, date |-> d, start_time |-> Hour(9) + SlotMinutes,
                 end_time |-> Hour(24), is_available |-> FALSE] : d \in 0..max_days }
    /\ customer_users \in {{}, {1}}

----------------------------------------------------------------------------
(* Availability checker                                                    *)

\* the SQL cast of a time string parameter to a TIME value
SqlTime(time_str) == StrpTime(time_str)

\* check_provider_capacity comparing with > in place of >=
check_provider_capacity_lax(provider_id, slot_date, slot_time) ==
    IF provider_id \notin DOMAIN service_providers
    THEN <<FALSE, "Provider not found">>
    ELSE LET max_jobs == service_providers[provider_id].max_concurrent_jobs
             t == SqlTime(slot_time)
             active_jobs ==
                 Cardinality({ booking_time_slots[i].booking_id :
                     i \in { j \in 1..Len(booking_time_slots) :
                         /\ booking_time_slots[j].provider_id = provider_id
                         /\ booking_time_slots[j].slot_date = slot_date
                         /\ booking_time_slots[j].slot_time = t
                         /\ booking_time_slots[j].status = "booked" } })
         IN  IF active_jobs > max_jobs
             THEN <<FALSE, "Provider at capacity", active_jobs, max_jobs>>
             ELSE <<TRUE, "">>

\* check_provider_capacity: <<ok, error>>, the error "Provider at capacity"
\* followed by the two numbers of its text (active_jobs/max_jobs jobs)
check_provider_capacity(provider_id, slot_date, slot_time) ==
    IF provider_id \notin DOMAIN service_providers
    THEN <<FALSE, "Provider not found">>
    ELSE LET max_jobs == service_providers[provider_id].max_concurrent_jobs
             t == SqlTime(slot_time)
             active_jobs ==
                 Cardinality({ booking_time_slots[i].booking_id :
                     i \in { j \in 1..Len(booking_time_slots) :
                         /\ booking_time_slots[j].provider_id = provider_id
                         /\ booking_time_slots[j].slot_date = slot_date
                         /\ booking_time_slots[j].slot_time = t
                         /\ booking_time_slots[j].status = "booked" } })
         IN  IF active_jobs >= max_jobs
             THEN <<FALSE, "Provider at capacity", active_jobs, max_jobs>>
             ELSE <<TRUE, "">>

\* check_slot_available with the end of an unavailability record included
check_slot_available_closed_end(provider_id, slot_date, slot_time) ==
    LET capacity == check_provider_capacity(provider_id, slot_date, slot_time)
        t == SqlTime(slot_time)
    IN  IF ~capacity[1] THEN capacity
        ELSE IF \E a \in provider_availability :
                    /\ a.provider_id = provider_id
                    /\ a.date = slot_date
                    /\ a.start_time <= t
                    /\ a.end_time >= t
                    /\ a.is_available = FALSE
             THEN <<FALSE, "Provider unavailable at this time">>
             ELSE <<TRUE, "">>

\* check_slot_available placing a hold on a slot it finds free, so that the
\* next check of the same slot finds it taken
check_slot_available_holding(provider_id, slot_date, slot_time) ==
    LET capacity == check_provider_capacity(provider_id, slot_date, slot_time)
        t == SqlTime(slot_time)
        held == /\ DOMAIN calc # {}
                /\ calc.fn = "check_slot_available"
                /\ calc.provider_id = provider_id
                /\ calc.slot_date = slot_date
                /\ calc.slot_time = slot_time
                /\ calc.out[1]
    IN  IF ~capacity[1] THEN capacity
        ELSE IF held \/ \E a \in provider_availability :
                    /\ a.provider_id = provider_id
                    /\ a.date = slot_date
                    /\ a.start_time <= t
                    /\ a.end_time > t
                    /\ a.is_available = FALSE
             THEN <<FALSE, "Provider unavailable at this time">>
             ELSE <<TRUE, "">>

\* check_slot_available: <<available, error>>
check_slot_available(provider_id, slot_date, slot_time) ==
    LET capacity == check_provider_capacity(provider_id, slot_date, slot_time)
        t == SqlTime(slot_time)
    IN  IF ~capacity[1] THEN capacity
        ELSE IF \E a \in provider_availability :
                    /\ a.provider_id = provider_id
                    /\ a.date = slot_date
                    /\ a.start_time <= t
                    /\ a.end_time > t
                    /\ a.is_available = FALSE
             THEN <<FALSE, "Provider unavailable at this time">>
             ELSE <<TRUE, "">>

----------------------------------------------------------------------------
(* Catalog queries of create_booking                                       *)

\* the CASE ... COALESCE(SUM(included.duration_minutes), sp.duration_minutes)
total_duration(package_id) ==
    LET sp == service_packages[package_id]
        items == { bi \in bundle_items :
                     /\ bi.bundle_package_id = package_id
                     /\ bi.included_package_id \in DOMAIN service_packages }
        RECURSIVE Sum(_)
        Sum(S) == IF S = {} THEN 0
                  ELSE LET bi == CHOOSE x \in S : TRUE
                       IN  service_packages[bi.included_package_id].duration_minutes
                             + Sum(S \ {bi})
    IN  IF sp.package_type = "bundle" /\ items # {}
        THEN Sum(items)
        ELSE sp.duration_minutes

Offers(provider_id, package_id) ==
    \E ps \in provider_services :
        /\ ps.provider_id = provider_id
        /\ ps.package_id = package_id
        /\ ps.is_available = TRUE

\* eligible_providers with partial coverage of a bundle: the NOT EXISTS
\* clause left out
eligible_providers_partial(package_id) ==
    IF service_packages[package_id].package_type = "bundle"
    THEN { p \in DOMAIN service_providers :
             /\ service_providers[p].is_active = TRUE
             /\ \E bi \in bundle_items :
                    /\ bi.bundle_package_id = package_id
                    /\ Offers(p, bi.included_package_id) }
    ELSE { p \in DOMAIN service_providers :
             /\ Offers(p, package_id)
             /\ service_providers[p].is_active = TRUE }

\* eligible_providers without the test of sp.is_active for a single package
eligible_providers_inactive(package_id) ==
    IF service_packages[package_id].package_type = "bundle"
    THEN { p \in DOMAIN service_providers :
             /\ service_providers[p].is_active = TRUE
             /\ ~ \E bi \in bundle_items :
                    /\ bi.bundle_package_id = package_id
                    /\ ~Offers(p, bi.included_package_id)
             /\ \E bi \in bundle_items :
                    /\ bi.bundle_package_id = package_id
                    /\ Offers(p, bi.included_package_id) }
    ELSE { p \in DOMAIN service_providers : Offers(p, package_id) }

\* the rows the provider query returns before LIMIT 1
eligible_providers(package_id) ==
    IF service_packages[package_id].package_type = "bundle"
    THEN { p \in DOMAIN service_providers :
             /\ service_providers[p].is_active = TRUE
             /\ ~ \E bi \in bundle_items :
                    /\ bi.bundle_package_id = package_id
                    /\ ~Offers(p, bi.included_package_id)
             /\ \E bi \in bundle_items :
                    /\ bi.bundle_package_id = package_id
                    /\ Offers(p, bi.included_package_id) }
    ELSE { p \in DOMAIN service_providers :
             /\ Offers(p, package_id)
             /\ service_providers[p].is_active = TRUE }

----------------------------------------------------------------------------
(* create_booking: the locals of one call, and one operator per step       *)

NoProvider == 0
NoItem == 0
NineAm == <<"0", "9", ":", "0", "0">>

\* a call before its first statement; raise_at is the ordinal of the store
\* write that raises (0: none does)
NewRequest(package_id, provider_id, start_date, start_time, urgent_item_id, raise_at) ==
    [ pc |-> "validate",
      package_id |-> package_id,
      req_provider_id |-> provider_id,
      req_start_date |-> start_date,
      req_start_time |-> start_time,
      urgent_item_id |-> urgent_item_id,
      raise_at |-> raise_at,
      provider_id |-> provider_id,
      required_slots |-> 0,
      slots_to_book |-> <<>>,
      current_date |-> start_date,
      remaining_slots |-> 0,
      start_time |-> start_time,
      days_checked |-> 0,
      slot_times |-> <<>>,
      idx |-> 1,
      day_slots_booked |-> 0,
      booking_id |-> 0,
      tx_bookings |-> {},
      tx_slots |-> <<>>,
      tx_links |-> {},
      tx_resolved |-> {},
      reads |-> 0,
      writes |-> 0,
      connected |-> FALSE,
      committed |-> FALSE,
      status |-> 0,
      error |-> "",
      slots_reserved |-> 0 ]

Idle == [NewRequest(0, NoProvider, 0, <<>>, NoItem, 0) EXCEPT !.pc = "idle"]

\* `return jsonify(...), code` inside the `with` block: the context manager
\* resumes normally and commits the (possibly empty) transaction
ReturnInside(l, code, error) ==
    [l EXCEPT !.pc = "done", !.status = code, !.error = error,
              !.committed = TRUE]

\* an exception swallowed inside the `with` block, so that the context
\* manager commits what was written
RaiseInside_swallowed(l) ==
    [l EXCEPT !.pc = "done", !.status = 500, !.error = "exception",
              !.committed = TRUE]

\* an exception inside the `with` block: get_db_connection rolls back and
\* re-raises, create_booking answers 500
RaiseInside(l) ==
    [l EXCEPT !.pc = "done", !.status = 500, !.error = "exception",
              !.tx_bookings = {}, !.tx_slots = <<>>, !.tx_links = {},
              !.tx_resolved = {}, !.committed = FALSE]

\* validate_time_slot on the request, before the connection is opened
Validate(l) ==
    LET v == validate_time_slot(l.req_start_time)
    IN  IF ~v[1]
        THEN [l EXCEPT !.pc = "done", !.status = 400, !.error = v[2]]
        ELSE [l EXCEPT !.pc = "package", !.connected = TRUE]

\* BeginDay without the ceiling of 20 slots a day
BeginDay_no_ceiling(l) ==
    IF l.remaining_slots > 0 /\ l.days_checked < max_days
    THEN [l EXCEPT !.pc = "alloc",
                   !.slot_times = generate_slot_times(l.start_time, l.remaining_slots),
                   !.idx = 1,
                   !.day_slots_booked = 0]
    ELSE IF l.remaining_slots > 0
         THEN ReturnInside(l, 400, "Not enough availability within 30 days")
         ELSE [l EXCEPT !.pc = "user"]

\* BeginDay starting every day, the first included, at 09:00
BeginDay_from_nine(l) ==
    IF l.remaining_slots > 0 /\ l.days_checked < max_days
    THEN LET slots_to_try == IF l.remaining_slots < MaxSlotsPerDay
                             THEN l.remaining_slots ELSE MaxSlotsPerDay
         IN  [l EXCEPT !.pc = "alloc",
                       !.slot_times = generate_slot_times(NineAm, slots_to_try),
                       !.idx = 1,
                       !.day_slots_booked = 0]
    ELSE IF l.remaining_slots > 0
         THEN ReturnInside(l, 400, "Not enough availability within 30 days")
         ELSE [l EXCEPT !.pc = "user"]

\* BeginDay letting a day more than max_days be tried
BeginDay_extra_day(l) ==
    IF l.remaining_slots > 0 /\ l.days_checked <= max_days
    THEN LET slots_to_try == IF l.remaining_slots < MaxSlotsPerDay
                             THEN l.remaining_slots ELSE MaxSlotsPerDay
         IN  [l EXCEPT !.pc = "alloc",
                       !.slot_times = generate_slot_times(l.start_time, slots_to_try),
                       !.idx = 1,
                       !.day_slots_booked = 0]
    ELSE IF l.remaining_slots > 0
         THEN ReturnInside(l, 400, "Not enough availability within 30 days")
         ELSE [l EXCEPT !.pc = "user"]

\* head of `while remaining_slots > 0 and days_checked < max_days`, and what
\* follows the loop when its condition is false
BeginDay(l) ==
    IF l.remaining_slots > 0 /\ l.days_checked < max_days
    THEN LET slots_to_try == IF l.remaining_slots < MaxSlotsPerDay
                             THEN l.remaining_slots ELSE MaxSlotsPerDay
         IN  [l EXCEPT !.pc = "alloc",
                       !.slot_times = generate_slot_times(l.start_time, slots_to_try),
                       !.idx = 1,
                       !.day_slots_booked = 0]
    ELSE IF l.remaining_slots > 0
         THEN ReturnInside(l, 400, "Not enough availability within 30 days")
         ELSE [l EXCEPT !.pc = "user"]

\* initialisation of the allocation loop
BeginAllocation(l) ==
    BeginDay([l EXCEPT !.slots_to_book = <<>>,
                       !.current_date = l.req_start_date,
                       !.remaining_slots = l.required_slots,
                       !.start_time = l.req_start_time,
                       !.days_checked = 0])

\* the package query
SelectPackage(l) ==
    LET r == [l EXCEPT !.reads = l.reads + 1]
    IN  IF l.package_id \notin DOMAIN service_packages
        THEN ReturnInside(r, 404, "Package not found")
        ELSE LET q == [r EXCEPT !.required_slots =
                          calculate_required_slots(total_duration(l.package_id))]
             IN  IF q.req_provider_id = NoProvider
                 THEN [q EXCEPT !.pc = "provider"]
                 ELSE BeginAllocation(q)

\* the provider query with LIMIT 1; pick is the row the store returns first
SelectProvider(l, pick) ==
    LET r == [l EXCEPT !.reads = l.reads + 1]
    IN  IF eligible_providers(l.package_id) = {}
        THEN ReturnInside(r, 404, "No available providers")
        ELSE BeginAllocation([r EXCEPT !.provider_id = pick])

\* EndDay restarting at the provider's working_hours_start
EndDay_working_start(l) ==
    IF l.remaining_slots > 0
    THEN IF l.day_slots_booked = 0
         THEN ReturnInside(l, 400, "No availability on date")
         ELSE BeginDay([l EXCEPT
                 !.current_date = l.current_date + 1,
                 !.start_time =
                     IF l.provider_id \in DOMAIN service_providers
                     THEN StrfTime(service_providers[l.provider_id].working_hours_start)
                     ELSE NineAm,
                 !.days_checked = l.days_checked + 1])
    ELSE BeginDay(l)

\* EndDay restarting at 09:00 of the same date
EndDay_same_date(l) ==
    IF l.remaining_slots > 0
    THEN IF l.day_slots_booked = 0
         THEN ReturnInside(l, 400, "No availability on date")
         ELSE BeginDay([l EXCEPT !.start_time = NineAm,
                                 !.days_checked = l.days_checked + 1])
    ELSE BeginDay(l)

\* tail of one pass of the while loop
EndDay(l) ==
    IF l.remaining_slots > 0
    THEN IF l.day_slots_booked = 0
         THEN ReturnInside(l, 400, "No availability on date")
         ELSE BeginDay([l EXCEPT !.current_date = l.current_date + 1,
                                 !.start_time = NineAm,
                                 !.days_checked = l.days_checked + 1])
    ELSE BeginDay(l)

\* CheckSlot inserting the slot row as soon as the slot is found free
CheckSlot_reserving(l) ==
    LET slot_time == l.slot_times[l.idx]
        r == [l EXCEPT !.reads = l.reads + 1]
    IN  IF ~check_slot_available(l.provider_id, l.current_date, slot_time)[1]
        THEN EndDay(r)
        ELSE LET q == [r EXCEPT
                         !.slots_to_book = Append(l.slots_to_book,
                                                  <<l.current_date, slot_time>>),
                         !.tx_slots = Append(l.tx_slots,
                                             [ booking_id |-> 0,
                                               provider_id |-> l.provider_id,
                                               slot_date |-> l.current_date,
                                               slot_time |-> SqlTime(slot_time),
                                               status |-> "booked" ]),
                         !.remaining_slots = l.remaining_slots - 1,
                         !.day_slots_booked = l.day_slots_booked + 1]
             IN  IF q.remaining_slots = 0 \/ l.idx = Len(l.slot_times)
                 THEN EndDay(q)
                 ELSE [q EXCEPT !.idx = l.idx + 1]

\* one pass of `for slot_time in slot_times`
CheckSlot(l) ==
    LET slot_time == l.slot_times[l.idx]
        r == [l EXCEPT !.reads = l.reads + 1]
    IN  IF ~check_slot_available(l.provider_id, l.current_date, slot_time)[1]
        THEN EndDay(r)
        ELSE LET q == [r EXCEPT
                         !.slots_to_book = Append(l.slots_to_book,
                                                  <<l.current_date, slot_time>>),
                         !.remaining_slots = l.remaining_slots - 1,
                         !.day_slots_booked = l.day_slots_booked + 1]
             IN  IF q.remaining_slots = 0 \/ l.idx = Len(l.slot_times)
                 THEN EndDay(q)
                 ELSE [q EXCEPT !.idx = l.idx + 1]

\* the default-user query
SelectUser(l) ==
    LET r == [l EXCEPT !.reads = l.reads + 1]
    IN  IF customer_users = {}
        THEN ReturnInside(r, 500, "No customer users found")
        ELSE [r EXCEPT !.pc = "insert_booking"]

\* where the call goes once the slot rows are written
AfterSlots(l) ==
    IF l.urgent_item_id # NoItem THEN [l EXCEPT !.pc = "link"]
    ELSE [l EXCEPT !.pc = "return"]

\* INSERT INTO bookings ... RETURNING booking_id; seq is the sequence's value
InsertBooking(l, seq) ==
    IF l.raise_at = l.writes + 1 THEN RaiseInside(l)
    ELSE LET q == [l EXCEPT
                     !.writes = l.writes + 1,
                     !.booking_id = seq + 1,
                     !.tx_bookings = { [ booking_id |-> seq + 1,
                                         package_id |-> l.package_id,
                                         provider_id |-> l.provider_id,
                                         booking_status |-> "pending",
                                         scheduled_date |-> l.req_start_date ] },
                     !.idx = 1]
         IN  IF l.slots_to_book = <<>> THEN AfterSlots(q)
             ELSE [q EXCEPT !.pc = "insert_slot"]

\* InsertSlot writing the provider of the request, not the resolved one
InsertSlot_requested_provider(l) ==
    IF l.raise_at = l.writes + 1 THEN RaiseInside(l)
    ELSE LET s == l.slots_to_book[l.idx]
             q == [l EXCEPT
                     !.writes = l.writes + 1,
                     !.tx_slots = Append(l.tx_slots,
                                         [ booking_id |-> l.booking_id,
                                           provider_id |-> l.req_provider_id,
                                           slot_date |-> s[1],
                                           slot_time |-> SqlTime(s[2]),
                                           status |-> "booked" ])]
         IN  IF l.idx = Len(l.slots_to_book) THEN AfterSlots(q)
             ELSE [q EXCEPT !.idx = l.idx + 1]

\* one pass of `for slot_date, slot_time in slots_to_book`
InsertSlot(l) ==
    IF l.raise_at = l.writes + 1 THEN RaiseInside(l)
    ELSE LET s == l.slots_to_book[l.idx]
             q == [l EXCEPT
                     !.writes = l.writes + 1,
                     !.tx_slots = Append(l.tx_slots,
                                         [ booking_id |-> l.booking_id,
                                           provider_id |-> l.provider_id,
                                           slot_date |-> s[1],
                                           slot_time |-> SqlTime(s[2]),
                                           status |-> "booked" ])]
         IN  IF l.idx = Len(l.slots_to_book) THEN AfterSlots(q)
             ELSE [q EXCEPT !.idx = l.idx + 1]

\* LinkItem going on to the update without writing the link row
LinkItem_unlinked(l) ==
    IF l.raise_at = l.writes + 1 THEN RaiseInside(l)
    ELSE [l EXCEPT !.pc = "resolve",
                   !.writes = l.writes + 1]

\* INSERT INTO booking_urgent_items
LinkItem(l) ==
    IF l.raise_at = l.writes + 1 THEN RaiseInside(l)
    ELSE [l EXCEPT !.pc = "resolve",
                   !.writes = l.writes + 1,
                   !.tx_links = { [ booking_id |-> l.booking_id,
                                    urgent_item_id |-> l.urgent_item_id ] }]

\* UPDATE urgent_work_items SET is_resolved = TRUE
ResolveItem(l) ==
    IF l.raise_at = l.writes + 1 THEN RaiseInside(l)
    ELSE [l EXCEPT !.pc = "return",
                   !.writes = l.writes + 1,
                   !.tx_resolved = {l.urgent_item_id}]

\* the 201 answer
ReturnCreated(l) ==
    [ReturnInside(l, 201, "") EXCEPT !.slots_reserved = Len(l.slots_to_book)]

\* the next statement of a call; seq and pick are what the store hands back
Step(l, seq, pick) ==
    CASE l.pc = "validate"       -> Validate(l)
      [] l.pc = "package"        -> SelectPackage(l)
      [] l.pc = "provider"       -> SelectProvider(l, pick)
      [] l.pc = "alloc"          -> CheckSlot(l)
      [] l.pc = "user"           -> SelectUser(l)
      [] l.pc = "insert_booking" -> InsertBooking(l, seq)
      [] l.pc = "insert_slot"    -> InsertSlot(l)
      [] l.pc = "link"           -> LinkItem(l)
      [] l.pc = "resolve"        -> ResolveItem(l)
      [] l.pc = "return"         -> ReturnCreated(l)
      [] OTHER                   -> l

\* the statements of a call are run in stretches of this many
Stretch == 32

RECURSIVE StepsTo(_, _, _, _, _)
\* at most n statements of a call, up to a position in stops
StepsTo(l, seq, pick, stops, n) ==
    IF n = 0 \/ l.pc \in stops THEN l
    ELSE StepsTo(Step(l, seq, pick), seq, pick, stops, n - 1)

RECURSIVE RunReads(_, _)
\* a call run up to its first write, or to its end when it writes nothing
RunReads(l, pick) ==
    IF l.pc \in {"done", "insert_booking"} THEN l
    ELSE RunReads(StepsTo(l, 0, pick, {"done", "insert_booking"}, Stretch), pick)

RECURSIVE Run(_, _, _)
\* a call run to its end with no other call between its statements
Run(l, seq, pick) ==
    IF l.pc = "done" THEN l
    ELSE Run(StepsTo(l, seq, pick, {"done"}, Stretch), seq, pick)

\* conn.commit(): the rows of the transaction become the committed rows
Commit(l) ==
    /\ bookings' = bookings \cup l.tx_bookings
    /\ booking_time_slots' = booking_time_slots \o l.tx_slots
    /\ booking_urgent_items' = booking_urgent_items \cup l.tx_links
    /\ urgent_work_items' =
         [i \in DOMAIN urgent_work_items |->
            IF i \in l.tx_resolved THEN TRUE ELSE urgent_work_items[i]]

----------------------------------------------------------------------------
(* Inputs                                                                  *)

TimeStr(h, m) == StrfTime(60 * h + m)

\* written times: HH:MM with fields in and out of range, one-digit fields,
\* and strings that are no time at all
TimeStrings ==
    { TwoDigits(h) \o <<":">> \o TwoDigits(m) :
        h \in 0..24, m \in {0, 1, 15, 29, 30, 31, 45, 59, 60} }
    \cup { <<DigitChars[h + 1], ":">> \o TwoDigits(m) : h \in 0..9, m \in {0, 30, 45} }
    \cup { TwoDigits(h) \o <<":", DigitChars[m + 1]>> : h \in {0, 9, 23}, m \in {0, 3} }
    \cup { <<>>, <<"0", "9", "3", "0">>, <<"0", "9", ":">>, <<":", "3", "0">>,
           <<"0", "9", ":", "3", "x">>, <<"9", "a", "m">>,
           <<"0", "9", "-", "3", "0">>, <<"0", "9", ":", "3", "0", ":", "0", "0">>,
           <<"0", "0", "9", ":", "3", "0">>, <<"0", "9", ":", "0", "3", "0">> }

\* the times validate_time_slot lets through
AlignedTimes == { s \in TimeStrings : validate_time_slot(s)[1] }

\* aligned, leniently written, misaligned and malformed start times
StartTimes ==
    { TimeStr(9, 0), <<"9", ":", "3", "0">>, TimeStr(9, 15),
      <<"0", "9", "3", "0">> }

\* 9 is no package, 7 is no provider
RequestPackages == {1, 2, 3, 9}
RequestProviders == {NoProvider, 1, 2, 7}
StartDates == {0, 1}
UrgentItems == {NoItem, 1}

\* the request bodies: every package, provider and date at 09:00; for
\* package 1 also the other start times and the work item; the long package
\* 5 with the provider that is free for one slot a day; every written time
\* with a package that does not exist; package 1 from 23:00
Requests ==
    { r \in [ package_id : RequestPackages, provider_id : RequestProviders,
              start_date : StartDates, start_time : StartTimes,
              urgent_item_id : UrgentItems ] :
        \/ r.start_time = TimeStr(9, 0) /\ r.urgent_item_id = NoItem
        \/ r.package_id = 1 /\ r.urgent_item_id = NoItem
        \/ r.package_id = 1 /\ r.start_time = TimeStr(9, 0) }
    \cup { [ package_id |-> 5, provider_id |-> 3, start_date |-> d,
             start_time |-> TimeStr(9, 0), urgent_item_id |-> NoItem ] :
           d \in StartDates }
    \cup { [ package_id |-> 9, provider_id |-> 1, start_date |-> 0,
             start_time |-> s, urgent_item_id |-> NoItem ] : s \in TimeStrings }
    \cup { [ package_id |-> 1, provider_id |-> 1, start_date |-> 1,
             start_time |-> TimeStr(23, 0), urgent_item_id |-> NoItem ] }

\* ordinals of the write that raises: none, a slot insert, and (for a
\* three-slot booking) the link insert and the item update
RaisePoints == {0, 3, 5, 6}

\* the rows LIMIT 1 may keep
Picks(package_id, provider_id) ==
    IF provider_id = NoProvider /\ package_id \in DOMAIN service_packages
       /\ eligible_providers(package_id) # {}
    THEN eligible_providers(package_id)
    ELSE {NoProvider}

----------------------------------------------------------------------------
(* Sequential use: one call at a time, each run to its end                 *)

\* a booking made before the behaviour starts: provider 2, date 1, 09:00,
\* package 1
SeedBooking ==
    [ booking_id |-> 1, package_id |-> 1, provider_id |-> 2,
      booking_status |-> "pending", scheduled_date |-> 1 ]

SeedSlots ==
    [i \in 1..3 |->
        [ booking_id |-> 1, provider_id |-> 2, slot_date |-> 1,
          slot_time |-> Hour(9) + SlotMinutes * (i - 1), status |-> "booked" ]]

Init ==
    /\ InitCatalog
    /\ urgent_work_items = (1 :> FALSE)
    /\ bookings = {SeedBooking}
    /\ booking_time_slots = SeedSlots
    /\ booking_urgent_items = {}
    /\ booking_seq = 1
    /\ last = Idle
    /\ procs = <<>>
    /\ calc = <<>>

\* POST /bookings handled from its first statement to its answer. The
\* statements up to the first write do not depend on raise_at, which ranges
\* over the writes the call gets to.
CreateBooking(r) ==
    /\ last.pc = "idle"
    /\ booking_seq < 1 + MaxBookings
    /\ \E pick \in Picks(r.package_id, r.provider_id) :
         \E ready \in { RunReads(NewRequest(r.package_id, r.provider_id,
                                             r.start_date, r.start_time,
                                             r.urgent_item_id, 0), pick) } :
           \E raise_at \in RaisePoints :
             \E l \in { Run([ready EXCEPT !.raise_at = raise_at],
                            booking_seq, pick) } :
               /\ raise_at # 0 => l.error = "exception"
               /\ last' = l
               /\ IF l.committed THEN Commit(l) ELSE UNCHANGED tables
               /\ booking_seq' = IF l.booking_id # 0 THEN l.booking_id
                                 ELSE booking_seq
    /\ UNCHANGED <<catalog, procs, calc>>

\* the answer leaves the server; the next request can be taken
Respond ==
    /\ last.pc = "done"
    /\ last' = Idle
    /\ UNCHANGED <<catalog, tables, booking_seq, procs, calc>>

Next ==
    \/ \E r \in Requests : CreateBooking(r)
    \/ Respond

Spec == Init /\ [][Next]_vars

----------------------------------------------------------------------------
(* Concurrent use: calls of several workers, interleaved statement by      *)
(* statement, each in its own transaction (READ COMMITTED: a statement      *)
(* sees the rows committed so far)                                         *)

Workers == {1, 2}

ConcRequests ==
    { r \in Requests :
        /\ r.package_id = 1
        /\ r.provider_id \in {NoProvider, 1}
        /\ r.start_date = 0
        /\ r.start_time \in {TimeStr(9, 0), <<"9", ":", "3", "0">>} }

ConcRaisePoints == {0, 5}

InFlight == Cardinality({w \in Workers : procs[w].pc # "idle"})

InitConc ==
    /\ InitCatalog
    /\ customer_users = {1}
    /\ urgent_work_items = (1 :> FALSE)
    /\ bookings = {SeedBooking}
    /\ booking_time_slots = SeedSlots
    /\ booking_urgent_items = {}
    /\ booking_seq = 1
    /\ last = Idle
    /\ procs = [w \in Workers |-> Idle]
    /\ calc = <<>>

\* a worker takes a request
Receive(w, r, raise_at) ==
    /\ procs[w].pc = "idle"
    /\ booking_seq + InFlight < 1 + MaxBookings
    /\ procs' = [procs EXCEPT ![w] =
                   NewRequest(r.package_id, r.provider_id, r.start_date,
                              r.start_time, r.urgent_item_id, raise_at)]
    /\ UNCHANGED <<catalog, tables, booking_seq, last, calc>>

\* a statement that reads the store or touches only the call's locals
ReadStep(w, pc, l) ==
    /\ procs[w].pc = pc
    /\ procs' = [procs EXCEPT ![w] = l]
    /\ UNCHANGED <<catalog, tables, booking_seq, last, calc>>

WValidate(w) == ReadStep(w, "validate", Validate(procs[w]))

WSelectPackage(w) == ReadStep(w, "package", SelectPackage(procs[w]))

WSelectProvider(w) ==
    \E pick \in Picks(procs[w].package_id, procs[w].req_provider_id) :
        ReadStep(w, "provider", SelectProvider(procs[w], pick))

WCheckSlot(w) == ReadStep(w, "alloc", CheckSlot(procs[w]))

WSelectUser(w) == ReadStep(w, "user", SelectUser(procs[w]))

WInsertBooking(w) ==
    /\ procs[w].pc = "insert_booking"
    /\ procs' = [procs EXCEPT ![w] = InsertBooking(procs[w], booking_seq)]
    /\ booking_seq' = IF procs'[w].booking_id # 0 THEN procs'[w].booking_id
                      ELSE booking_seq
    /\ UNCHANGED <<catalog, tables, last, calc>>

WInsertSlot(w) == ReadStep(w, "insert_slot", InsertSlot(procs[w]))

WLinkItem(w) == ReadStep(w, "link", LinkItem(procs[w]))

WResolveItem(w) == ReadStep(w, "resolve", ResolveItem(procs[w]))

WReturnCreated(w) == ReadStep(w, "return", ReturnCreated(procs[w]))

\* the `with` block is left: commit after a return, nothing after a
\* rollback; the answer is sent
WFinish(w) ==
    /\ procs[w].pc = "done"
    /\ IF procs[w].committed THEN Commit(procs[w]) ELSE UNCHANGED tables
    /\ procs' = [procs EXCEPT ![w] = Idle]
    /\ last' = procs[w]
    /\ UNCHANGED <<catalog, booking_seq, calc>>

NextConc ==
    \/ \E w \in Workers, r \in ConcRequests, raise_at \in ConcRaisePoints :
          Receive(w, r, raise_at)
    \/ \E w \in Workers : WValidate(w)
    \/ \E w \in Workers : WSelectPackage(w)
    \/ \E w \in Workers : WSelectProvider(w)
    \/ \E w \in Workers : WCheckSlot(w)
    \/ \E w \in Workers : WSelectUser(w)
    \/ \E w \in Workers : WInsertBooking(w)
    \/ \E w \in Workers : WInsertSlot(w)
    \/ \E w \in Workers : WLinkItem(w)
    \/ \E w \in Workers : WResolveItem(w)
    \/ \E w \in Workers : WReturnCreated(w)
    \/ \E w \in Workers : WFinish(w)

SpecConc == InitConc /\ [][NextConc]_vars

----------------------------------------------------------------------------
(* The slot calculator on its own                                          *)

InitCalc ==
    /\ InitCatalog
    /\ customer_users = {1}
    /\ urgent_work_items = (1 :> FALSE)
    /\ bookings = {SeedBooking}
    /\ booking_time_slots = SeedSlots
    /\ booking_urgent_items = {}
    /\ booking_seq = 1
    /\ last = Idle
    /\ procs = <<>>
    /\ calc = [fn |-> "none"]

CallRequiredSlots(duration_minutes) ==
    /\ calc.fn = "none"
    /\ calc' = [ fn |-> "calculate_required_slots",
                 duration_minutes |-> duration_minutes,
                 out |-> calculate_required_slots(duration_minutes) ]
    /\ UNCHANGED <<catalog, tables, booking_seq, last, procs>>

CallSlotTimes(start_time, num_slots) ==
    /\ calc.fn = "none"
    /\ calc' = [ fn |-> "generate_slot_times",
                 start_time |-> start_time,
                 num_slots |-> num_slots,
                 out |-> generate_slot_times(start_time, num_slots) ]
    /\ UNCHANGED <<catalog, tables, booking_seq, last, procs>>

CallValidate(time_str) ==
    /\ calc.fn = "none"
    /\ calc' = [ fn |-> "validate_time_slot",
                 time_str |-> time_str,
                 out |-> validate_time_slot(time_str) ]
    /\ UNCHANGED <<catalog, tables, booking_seq, last, procs>>

NextCalc ==
    \/ \E d \in 1..MaxDuration : CallRequiredSlots(d)
    \/ \E s \in AlignedTimes, n \in 0..MaxCount : CallSlotTimes(s, n)
    \/ \E s \in TimeStrings : CallValidate(s)

SpecCalc == InitCalc /\ [][NextCalc]_vars

----------------------------------------------------------------------------
(* The availability checker and get_available_slots, with create_booking   *)
(* calls between them                                                      *)

\* a booking of provider 3 made before its unavailability records: date 0,
\* 09:00 to 10:30, package 1
PriorBooking ==
    [ booking_id |-> 2, package_id |-> 1, provider_id |-> 3,
      booking_status |-> "pending", scheduled_date |-> 0 ]

PriorSlots ==
    [i \in 1..3 |->
        [ booking_id |-> 2, provider_id |-> 3, slot_date |-> 0,
          slot_time |-> Hour(9) + SlotMinutes * (i - 1), status |-> "booked" ]]

NoCall == [fn |-> "none"]

InitAvail ==
    /\ InitCatalog
    /\ customer_users = {1}
    /\ urgent_work_items = (1 :> FALSE)
    /\ bookings = {SeedBooking, PriorBooking}
    /\ booking_time_slots = SeedSlots \o PriorSlots
    /\ booking_urgent_items = {}
    /\ booking_seq = 2
    /\ last = Idle
    /\ procs = <<>>
    /\ calc = NoCall

\* check_slot_available called on a cursor of its own; calls counts the
\* calls made in a row with these arguments (2: two or more)
CallCheckSlot(provider_id, slot_date, slot_time) ==
    /\ last.pc = "idle"
    /\ calc.fn \in {"none", "check_slot_available"}
    /\ calc' = [ fn |-> "check_slot_available",
                 provider_id |-> provider_id,
                 slot_date |-> slot_date,
                 slot_time |-> slot_time,
                 out |-> check_slot_available(provider_id, slot_date, slot_time),
                 calls |-> IF /\ calc.fn = "check_slot_available"
                              /\ calc.provider_id = provider_id
                              /\ calc.slot_date = slot_date
                              /\ calc.slot_time = slot_time
                           THEN 2 ELSE 1 ]
    /\ UNCHANGED <<catalog, tables, booking_seq, last, procs>>

NoPackage == 0

\* provider_ids of get_available_slots, as the bag of the rows' ids: the one
\* id of the query string, or what the provider query returns (a bundle: at
\* most one row per service_providers row; a single package: DISTINCT)
provider_ids(package_id, provider_id) ==
    IF provider_id # NoProvider THEN SetToBag({provider_id})
    ELSE SetToBag(eligible_providers(package_id))

\* the start times tried for provider pid, in minutes: every half hour from
\* start_hour:00 to end_hour:00
candidate_starts(pid) ==
    LET start_hour == service_providers[pid].working_hours_start \div 60
        end_hour == service_providers[pid].working_hours_end \div 60
    IN  { 60 * hour + minute : hour \in start_hour..end_hour, minute \in {0, 30} }
          \ { 60 * end_hour + 30 }

\* all_available looking at the first slot of the run only
all_available_first_only(pid, slot_date, start_time, required_slots) ==
    LET slot_times == generate_slot_times(start_time, required_slots)
    IN  check_slot_available(pid, slot_date, slot_times[1])[1]

\* all_available after the loop over slot_times
all_available(pid, slot_date, start_time, required_slots) ==
    LET slot_times == generate_slot_times(start_time, required_slots)
    IN  \A i \in 1..Len(slot_times) :
           check_slot_available(pid, slot_date, slot_times[i])[1]

RECURSIVE sorted_starts(_)
\* available_starts.sort(key = start_time) on starts given in minutes
sorted_starts(S) ==
    IF S = {} THEN <<>>
    ELSE LET m == CHOOSE x \in S : \A y \in S : x <= y
         IN  <<m>> \o sorted_starts(S \ {m})

\* available_starts once sorted: one entry per start time that some
\* provider of provider_ids has free for the whole run
available_starts(package_id, provider_id, slot_date, required_slots) ==
    LET ids == BagToSet(provider_ids(package_id, provider_id))
        starts == { t \in { 30 * k : k \in 0..47 } :
                      \E pid \in ids \cap DOMAIN service_providers :
                         /\ t \in candidate_starts(pid)
                         /\ all_available(pid, slot_date, StrfTime(t),
                                          required_slots) }
        order == sorted_starts(starts)
    IN  [i \in 1..Len(order) |->
            [ start_time |-> StrfTime(order[i]),
              provider_id |-> provider_id,
              duration_minutes |-> total_duration(package_id) ]]

\* the answer of get_available_slots before any of its fields is known
Answer(package_id, provider_id, slot_date) ==
    [ fn |-> "get_available_slots", package_id |-> package_id,
      provider_id |-> provider_id, date |-> slot_date,
      status |-> 0, error |-> "", message |-> "", connected |-> FALSE,
      required_slots |-> 0, provider_ids |-> EmptyBag,
      available_slots |-> <<>> ]

\* get_available_slots, from the query string to the answer
get_available_slots(package_id, provider_id, slot_date) ==
    LET a == Answer(package_id, provider_id, slot_date)
    IN  IF package_id = NoPackage
        THEN [a EXCEPT !.status = 400, !.error = "package_id and date required"]
        ELSE IF slot_date < Today
        THEN [a EXCEPT !.status = 400, !.error = "Cannot book in the past"]
        ELSE IF package_id \notin DOMAIN service_packages
        THEN [a EXCEPT !.status = 404, !.error = "Package not found",
                       !.connected = TRUE]
        ELSE LET required_slots == calculate_required_slots(total_duration(package_id))
                 ids == provider_ids(package_id, provider_id)
                 b == [a EXCEPT !.status = 200, !.connected = TRUE,
                                !.required_slots = required_slots,
                                !.provider_ids = ids]
             IN  IF ids = EmptyBag
                 THEN [b EXCEPT !.message =
                         IF service_packages[package_id].package_type = "bundle"
                         THEN "No providers available for this service bundle"
                         ELSE "No providers available for this service"]
                 ELSE [b EXCEPT !.available_slots =
                         available_starts(package_id, provider_id, slot_date,
                                          required_slots)]

\* get_available_slots holding the first slot it lists: a booked row of
\* no booking for the provider of the query
GetAvailableSlots_reserving(package_id, provider_id, slot_date) ==
    /\ last.pc = "idle"
    /\ calc.fn = "none"
    /\ calc' = get_available_slots(package_id, provider_id, slot_date)
    /\ booking_time_slots' =
         IF calc'.available_slots = <<>> THEN booking_time_slots
         ELSE Append(booking_time_slots,
                     [ booking_id |-> 0, provider_id |-> provider_id,
                       slot_date |-> slot_date,
                       slot_time |-> SqlTime(calc'.available_slots[1].start_time),
                       status |-> "booked" ])
    /\ UNCHANGED <<catalog, urgent_work_items, bookings, booking_urgent_items,
                   booking_seq, last, procs>>

\* GET /availability/slots: only SELECT statements are issued
GetAvailableSlots(package_id, provider_id, slot_date) ==
    /\ last.pc = "idle"
    /\ calc.fn = "none"
    /\ calc' = get_available_slots(package_id, provider_id, slot_date)
    /\ UNCHANGED <<catalog, tables, booking_seq, last, procs>>

\* the answer of a read-only call is sent
Return ==
    /\ calc.fn # "none"
    /\ calc' = NoCall
    /\ UNCHANGED <<catalog, tables, booking_seq, last, procs>>

\* 0 is no package id, 9 no package; 7 is no provider, 4 an inactive one
QueryPackages == {NoPackage, 1, 2, 3, 5, 6, 7, 8, 9, 10}
QueryProviders == {NoProvider, 1, 2, 3, 7}
QueryDates == {0, 1, 2}

CheckProviders == {1, 2, 3, 7}
CheckDates == {0, 1}
CheckTimes ==
    { TimeStr(9, 0), TimeStr(9, 15), TimeStr(9, 30), TimeStr(10, 0),
      TimeStr(10, 30), TimeStr(11, 0) }

\* create_booking calls without provider_id for the bundles and the single
\* packages, and calls naming a provider: 3 for a package it offers and one
\* it does not, 1 for the packages of 25 and of 601 slots, 3 for the one of
\* 31 slots
AvailRequests ==
    { [ package_id |-> k, provider_id |-> NoProvider, start_date |-> 1,
        start_time |-> TimeStr(9, 0), urgent_item_id |-> NoItem ] :
      k \in {1, 3, 5, 6, 7, 8} }
    \cup { [ package_id |-> k, provider_id |-> 3, start_date |-> 1,
             start_time |-> TimeStr(9, 0), urgent_item_id |-> NoItem ] :
           k \in {1, 5, 10} }
    \cup { [ package_id |-> k, provider_id |-> 1, start_date |-> 1,
             start_time |-> TimeStr(9, 0), urgent_item_id |-> NoItem ] :
           k \in {2, 12} }

\* create_booking calls made from a listing: package 1 with provider 1 at
\* 09:00 and at 16:30, with provider 2 (who holds a booking at 09:00), with
\* provider 3 (unavailable from 09:30) and without provider_id, package 10 without provider_id at 10:00, and the
\* package of 25 slots with provider 1
ListedRequests ==
    { [ package_id |-> 1, provider_id |-> p, start_date |-> 1,
        start_time |-> TimeStr(9, 0), urgent_item_id |-> NoItem ] :
      p \in {NoProvider, 1, 2, 3} }
    \cup { [ package_id |-> 1, provider_id |-> 1, start_date |-> 1,
             start_time |-> TimeStr(16, 30), urgent_item_id |-> NoItem ],
           [ package_id |-> 10, provider_id |-> NoProvider, start_date |-> 1,
             start_time |-> TimeStr(10, 0), urgent_item_id |-> NoItem ],
           [ package_id |-> 2, provider_id |-> 1, start_date |-> 1,
             start_time |-> TimeStr(9, 0), urgent_item_id |-> NoItem ] }

\* request r asks for the package, provider and date of the answer a of
\* get_available_slots, at a start time that a lists
ListedIn(r, a) ==
    /\ a.fn = "get_available_slots"
    /\ a.status = 200
    /\ a.package_id = r.package_id
    /\ a.provider_id = r.provider_id
    /\ a.date = r.start_date
    /\ \E i \in 1..Len(a.available_slots) :
          a.available_slots[i].start_time = r.start_time

\* POST /bookings for a start time taken from the answer of
\* GET /availability/slots that the client holds
BookListed(r) ==
    /\ ListedIn(r, calc)
    /\ CreateBooking(r)

NextAvail ==
    \/ \E p \in CheckProviders, d \in CheckDates, t \in CheckTimes :
          CallCheckSlot(p, d, t)
    \/ \E k \in QueryPackages, p \in QueryProviders, d \in QueryDates :
          GetAvailableSlots(k, p, d)
    \/ Return
    \/ \E r \in AvailRequests : calc.fn = "none" /\ CreateBooking(r)
    \/ \E r \in ListedRequests : BookListed(r)
    \/ Respond

SpecAvail == InitAvail /\ [][NextAvail]_vars

----------------------------------------------------------------------------
(* Properties                                                              *)

ValidationErrors ==
    { "Invalid time format. Use HH:MM",
      "Time slots must be on 30-minute boundaries" }

\* the ways of writing the time of day h:m with one- or two-digit fields
Writings(h, m) ==
    { hh \o <<":">> \o mm :
        hh \in {TwoDigits(h)} \cup (IF h < 10 THEN {<<DigitChars[h + 1]>>} ELSE {}),
        mm \in {TwoDigits(m)} \cup (IF m < 10 THEN {<<DigitChars[m + 1]>>} ELSE {}) }

\* s names a time of day on a half-hour boundary
WritesHalfHour(s) == \E h \in 0..23, m \in {0, 30} : s \in Writings(h, m)

\* the time of day a half-hour writing names, in minutes
TimeOf(s) ==
    CHOOSE t \in {30 * k : k \in 0..47} : s \in Writings(t \div 60, t % 60)

\* the bookings holding a booked slot of provider p at date d, time t
HoldersAt(p, d, t) ==
    { booking_time_slots[i].booking_id :
        i \in { j \in 1..Len(booking_time_slots) :
                  /\ booking_time_slots[j].provider_id = p
                  /\ booking_time_slots[j].slot_date = d
                  /\ booking_time_slots[j].slot_time = t
                  /\ booking_time_slots[j].status = "booked" } }

\* no provider holds more jobs in a slot than its max_concurrent_jobs
WithinCapacity ==
    \A i \in 1..Len(booking_time_slots) :
        LET row == booking_time_slots[i]
        IN  row.provider_id \in DOMAIN service_providers =>
              Cardinality(HoldersAt(row.provider_id, row.slot_date, row.slot_time))
                <= service_providers[row.provider_id].max_concurrent_jobs

\* the slot rows of a booking, as indices into the table
RowsOf(booking_id) ==
    { i \in 1..Len(booking_time_slots) :
        booking_time_slots[i].booking_id = booking_id }

\* provider p has no booked slot and no unavailability record on date d
OpenDay(p, d) ==
    /\ \A i \in 1..Len(booking_time_slots) :
          ~(booking_time_slots[i].provider_id = p
            /\ booking_time_slots[i].slot_date = d)
    /\ \A a \in provider_availability :
          ~(a.provider_id = p /\ a.date = d /\ ~a.is_available)

\* a call has just been handled
Handled == last.pc = "idle" /\ last'.pc = "done"

AllocationErrors ==
    { "No availability on date", "Not enough availability within 30 days" }

\* C1: with the calls run one after the other, no (provider, date, time)
\* ever has more bookings holding a booked slot than the provider's
\* max_concurrent_jobs; and a call naming a provider of capacity 1, a date
\* and a start time at which a booking already holds that provider's slot
\* fails with the capacity error and leaves the tables as they were.
C1_SequentialCapacity ==
    [][ /\ WithinCapacity'
        /\ ( /\ Handled
             /\ last'.package_id \in DOMAIN service_packages
             /\ last'.req_provider_id \in DOMAIN service_providers
             /\ service_providers[last'.req_provider_id].max_concurrent_jobs = 1
             /\ WritesHalfHour(last'.req_start_time)
             /\ HoldersAt(last'.req_provider_id, last'.req_start_date,
                          TimeOf(last'.req_start_time)) # {} )
           => ( /\ last'.status = 400
                /\ last'.error = "No availability on date"
                /\ UNCHANGED tables ) ]_vars

C1_Witness ==
    /\ last.pc = "done"
    /\ last.req_provider_id = 1
    /\ last.error = "No availability on date"
    /\ last.slots_to_book = <<>>
    /\ Cardinality(HoldersAt(1, last.req_start_date,
                             StrpTime(last.req_start_time))) = 1

\* C2: with the calls of two workers interleaved, each in its own
\* transaction, no committed state has more bookings holding a booked slot
\* at a (provider, date, time) than the provider's max_concurrent_jobs; for
\* a provider of capacity 1, at most one of two calls for the same slot
\* commits it.
C2_ConcurrentCapacity ==
    \A p \in DOMAIN service_providers, d \in StartDates, k \in 0..47 :
        Cardinality(HoldersAt(p, d, 30 * k))
          <= service_providers[p].max_concurrent_jobs

\* C3: a call that fails during allocation (no slot on some day, or slots
\* left after the 30-day horizon) leaves bookings, booking_time_slots,
\* booking_urgent_items and urgent_work_items exactly as they were, also
\* when earlier days of the request had free slots.
C3_AllocationAllOrNothing ==
    [][ (Handled /\ last'.error \in AllocationErrors) =>
          (last'.status = 400 /\ UNCHANGED tables) ]_vars

C3_Witness ==
    /\ last.pc = "done"
    /\ last.error = "No availability on date"
    /\ Len(last.slots_to_book) >= 1
    /\ last.current_date > last.req_start_date

\* C4: when a store write of a call raises after the Booking row was
\* inserted (a slot insert, the link insert or the item update), the
\* transaction is rolled back: the call answers 500 and no table holds a
\* row or a flag of that request.
C4_RollbackOnWriteFailure ==
    [][ (Handled /\ last'.raise_at # 0) =>
          /\ last'.status = 500
          /\ last'.writes >= 1
          /\ UNCHANGED tables
          /\ \A b \in bookings' : b.booking_id # last'.booking_id
          /\ \A i \in 1..Len(booking_time_slots') :
                booking_time_slots'[i].booking_id # last'.booking_id
          /\ \A k \in booking_urgent_items' : k.booking_id # last'.booking_id ]_vars

C4_Witness ==
    /\ last.pc = "done"
    /\ last.error = "exception"
    /\ last.raise_at = 6
    /\ last.writes = 5
    /\ last.booking_id = booking_seq
    /\ \A b \in bookings : b.booking_id # last.booking_id
    /\ RowsOf(last.booking_id) = {}
    /\ urgent_work_items[1] = FALSE

\* C5: in every committed state each Booking has status pending and owns
\* exactly ceil(effective duration / 30) slot rows, all booked, all of the
\* booking's provider, no two for the same (date, time); every slot row
\* belongs to a Booking; and a call answered 201 reports as slots_reserved
\* the number of rows of its booking, which are its reserved pairs in order.
C5_NoPartialBooking ==
    /\ \A b \in bookings :
          LET rows == RowsOf(b.booking_id)
              d == total_duration(b.package_id)
              n == Cardinality(rows)
          IN  /\ b.booking_status = "pending"
              /\ 30 * n >= d /\ 30 * (n - 1) < d
              /\ \A i \in rows :
                    /\ booking_time_slots[i].status = "booked"
                    /\ booking_time_slots[i].provider_id = b.provider_id
              /\ \A i, j \in rows :
                    ( /\ booking_time_slots[i].slot_date = booking_time_slots[j].slot_date
                      /\ booking_time_slots[i].slot_time = booking_time_slots[j].slot_time )
                    => i = j
    /\ \A i \in 1..Len(booking_time_slots) :
          \E b \in bookings : b.booking_id = booking_time_slots[i].booking_id
    /\ (last.pc = "done" /\ last.status = 201) =>
          LET first == Len(booking_time_slots) - last.slots_reserved
          IN  /\ last.slots_reserved = Cardinality(RowsOf(last.booking_id))
              /\ last.slots_reserved = Len(last.slots_to_book)
              /\ \A i \in 1..last.slots_reserved :
                    /\ booking_time_slots[first + i].booking_id = last.booking_id
                    /\ booking_time_slots[first + i].slot_date = last.slots_to_book[i][1]
                    /\ booking_time_slots[first + i].slot_time =
                         TimeOf(last.slots_to_book[i][2])

C5_Witness ==
    /\ last.pc = "done"
    /\ last.status = 201
    /\ last.package_id = 3
    /\ last.req_provider_id = NoProvider
    /\ last.slots_reserved = 5
    /\ Cardinality(RowsOf(last.booking_id)) = 5
    /\ Cardinality(bookings) = 3

\* C6: with every slot of the provider open on the days used and a start
\* at 09:00, a booking of N slots takes min(20, remaining) slots on each
\* day in turn, each day from 09:00 on; for N = 25 that is 20 slots on the
\* first day and 5 on the second, from 09:00.
C6_MultiDaySpillover ==
    [][ ( /\ Handled
          /\ last'.raise_at = 0
          /\ customer_users # {}
          /\ last'.package_id \in DOMAIN service_packages
          /\ last'.provider_id \in DOMAIN service_providers
          /\ last'.req_start_time = TimeStr(9, 0)
          /\ \A k \in 0..((last'.required_slots - 1) \div 20) :
                OpenDay(last'.provider_id, last'.req_start_date + k) )
        => LET N == last'.required_slots
               D == last'.req_start_date
               book == last'.slots_to_book
           IN  /\ last'.status = 201
               /\ Len(book) = N
               /\ \A i \in 1..N :
                     book[i] = << D + ((i - 1) \div 20),
                                  StrfTime(Hour(9) + 30 * ((i - 1) % 20)) >>
               /\ N = 25 =>
                     /\ Cardinality({i \in 1..N : book[i][1] = D}) = 20
                     /\ Cardinality({i \in 1..N : book[i][1] = D + 1}) = 5
                     /\ book[21] = <<D + 1, TimeStr(9, 0)>>
               /\ Len(booking_time_slots') = Len(booking_time_slots) + N ]_vars

C6_Witness ==
    /\ last.pc = "done"
    /\ last.status = 201
    /\ last.required_slots = 25
    /\ Len(last.slots_to_book) = 25
    /\ last.slots_to_book[20] = <<last.req_start_date, TimeStr(18, 30)>>
    /\ last.slots_to_book[21] = <<last.req_start_date + 1, TimeStr(9, 0)>>
    /\ last.slots_to_book[25] = <<last.req_start_date + 1, TimeStr(11, 0)>>

\* C7: for a package of N <= 20 slots, a provider with every slot open on
\* date D and an aligned start time s, the call reserves exactly the pairs
\* (D, s), (D, s + 30 min), ... N of them in this order, and answers
\* slots_reserved = N; for 90 minutes from 09:00 these are 09:00, 09:30 and
\* 10:00 and slots_reserved is 3.
C7_SingleDayBooking ==
    [][ ( /\ Handled
          /\ last'.raise_at = 0
          /\ customer_users # {}
          /\ last'.package_id \in DOMAIN service_packages
          /\ last'.provider_id \in DOMAIN service_providers
          /\ WritesHalfHour(last'.req_start_time)
          /\ last'.required_slots <= 20
          /\ OpenDay(last'.provider_id, last'.req_start_date) )
        => LET N == last'.required_slots
               D == last'.req_start_date
               s == TimeOf(last'.req_start_time)
               book == last'.slots_to_book
           IN  /\ last'.status = 201
               /\ last'.slots_reserved = N
               /\ book = [i \in 1..N |-> <<D, StrfTime((s + 30 * (i - 1)) % DayMinutes)>>]
               /\ (total_duration(last'.package_id) = 90 /\ s = Hour(9)) =>
                     /\ book = << <<D, <<"0", "9", ":", "0", "0">> >>,
                                  <<D, <<"0", "9", ":", "3", "0">> >>,
                                  <<D, <<"1", "0", ":", "0", "0">> >> >>
                     /\ last'.slots_reserved = 3
               /\ \A i \in 1..N :
                     LET row == booking_time_slots'[Len(booking_time_slots) + i]
                     IN  /\ row.slot_date = D
                         /\ row.slot_time = (s + 30 * (i - 1)) % DayMinutes
                         /\ row.booking_id = last'.booking_id ]_vars

C7_Witness ==
    /\ last.pc = "done"
    /\ last.status = 201
    /\ last.package_id = 1
    /\ last.req_start_time = <<"0", "9", ":", "0", "0">>
    /\ last.slots_to_book = << <<last.req_start_date, <<"0", "9", ":", "0", "0">> >>,
                               <<last.req_start_date, <<"0", "9", ":", "3", "0">> >>,
                               <<last.req_start_date, <<"1", "0", ":", "0", "0">> >> >>
    /\ last.slots_reserved = 3
    /\ Cardinality(RowsOf(last.booking_id)) = 3

\* C8: calculate_required_slots(d) is ceil(d / 30) for every positive
\* duration d: the least n with 30 * n >= d, so at least 1, exactly d / 30
\* for a multiple of 30 and floor(d / 30) + 1 otherwise (45 -> 2, 60 -> 2,
\* 61 -> 3).
C8_RequiredSlotsIsCeiling ==
    calc.fn = "calculate_required_slots" =>
        LET d == calc.duration_minutes
            n == calc.out
        IN  /\ n >= 1
            /\ 30 * n >= d /\ 30 * (n - 1) < d
            /\ (d % 30 = 0) => (30 * n = d)
            /\ (d % 30 # 0) => (n = (d \div 30) + 1)
            /\ (d = 45) => (n = 2)
            /\ (d = 60) => (n = 2)
            /\ (d = 61) => (n = 3)

C8_Witness ==
    /\ calc.fn = "calculate_required_slots"
    /\ calc.duration_minutes = 61
    /\ calc.out = 3

\* C9: generate_slot_times(start, count) has exactly count elements, the
\* first is the start time (the same text when start is written HH:MM), and
\* in a run that stays before midnight each element is 30 minutes after the
\* one before it; generate_slot_times("09:00", 3) is 09:00, 09:30, 10:00.
C9_SlotTimesConsecutive ==
    calc.fn = "generate_slot_times" =>
        LET start == calc.start_time
            count == calc.num_slots
            out == calc.out
            first == CHOOSE t \in {30 * k : k \in 0..47} :
                        start \in Writings(t \div 60, t % 60)
        IN  /\ Len(out) = count
            /\ count >= 1 => /\ out[1] \in Writings(first \div 60, first % 60)
                             /\ Len(out[1]) = 5
                             /\ Len(start) = 5 => out[1] = start
            /\ first + 30 * (count - 1) < DayMinutes =>
                 \A i \in 1..(count - 1) :
                    \E k \in 0..46 :
                        /\ out[i] \in Writings((30 * k) \div 60, (30 * k) % 60)
                        /\ out[i + 1] \in
                             Writings((30 * k + 30) \div 60, (30 * k + 30) % 60)
            /\ (start = <<"0", "9", ":", "0", "0">> /\ count = 3) =>
                 out = << <<"0", "9", ":", "0", "0">>,
                          <<"0", "9", ":", "3", "0">>,
                          <<"1", "0", ":", "0", "0">> >>

C9_Witness ==
    /\ calc.fn = "generate_slot_times"
    /\ calc.start_time = <<"0", "9", ":", "0", "0">>
    /\ calc.num_slots = 3
    /\ calc.out[3] = <<"1", "0", ":", "0", "0">>

\* C10: a call whose start_time names no time of day, or a time off the
\* half hour, ends with a validation error (400) before the connection is
\* opened and any statement is issued, and leaves every table and the id
\* sequence as they were; a start_time HH:MM with hour 00-23 and minute 00
\* or 30 gets past validation.
C10_TimeSlotValidation ==
    [][ (last.pc = "idle" /\ last'.pc = "done") =>
          LET s == last'.req_start_time
          IN  /\ ~WritesHalfHour(s) =>
                   /\ last'.status = 400
                   /\ last'.error \in ValidationErrors
                   /\ ~last'.connected
                   /\ last'.reads = 0 /\ last'.writes = 0
                   /\ UNCHANGED <<tables, booking_seq>>
              /\ (\E h \in 0..23, m \in {0, 30} : s = TimeStr(h, m)) =>
                   /\ last'.error \notin ValidationErrors
                   /\ last'.connected ]_vars

C10_Witness ==
    /\ last.pc = "done"
    /\ last.req_start_time = <<"0", "9", ":", "1", "5">>
    /\ last.package_id = 1
    /\ last.status = 400
    /\ last.reads = 0

\* C11: a call whose start_date is before the current date ends with a
\* validation error (400) before the connection is opened and any statement
\* is issued, and leaves every table and the id sequence as they were, so
\* that no booking starting on a past date is created.
C11_PastDateRejected ==
    [][ (Handled /\ last'.req_start_date < Today) =>
          /\ last'.status = 400
          /\ ~last'.connected
          /\ last'.reads = 0 /\ last'.writes = 0
          /\ UNCHANGED <<tables, booking_seq>> ]_vars

\* the time of day written HH:MM, in minutes
MinutesOf(s) ==
    CHOOSE t \in 0..(DayMinutes - 1) : s = TimeStr(t \div 60, t % 60)

\* the number of booked slot rows at a key
BookedRowsAt(p, d, t) ==
    Cardinality({ i \in 1..Len(booking_time_slots) :
                    /\ booking_time_slots[i].provider_id = p
                    /\ booking_time_slots[i].slot_date = d
                    /\ booking_time_slots[i].slot_time = t
                    /\ booking_time_slots[i].status = "booked" })

\* some record of provider p and date d says unavailable from a start at or
\* before t to an end after t
InsideWindow(p, d, t) ==
    \E a \in provider_availability :
        /\ a.provider_id = p /\ a.date = d /\ ~a.is_available
        /\ a.start_time <= t /\ t < a.end_time

\* C12: check_slot_available(provider, date, time) answers, in this order:
\* "Provider not found" for an unknown provider; "Provider at capacity" with
\* the observed and the limit numbers when the booked slot rows at the key
\* are at least max_concurrent_jobs, also inside an unavailability record;
\* "Provider unavailable at this time" when a record with is_available =
\* false has start <= time < end (blocked at its start, free at its end,
\* records with is_available = true ignored); available otherwise.
C12_SlotAvailableDecision ==
    calc.fn = "check_slot_available" =>
        LET p == calc.provider_id
            d == calc.slot_date
            t == MinutesOf(calc.slot_time)
        IN  calc.out =
              IF p \notin DOMAIN service_providers
              THEN <<FALSE, "Provider not found">>
              ELSE IF BookedRowsAt(p, d, t)
                        >= service_providers[p].max_concurrent_jobs
              THEN <<FALSE, "Provider at capacity", BookedRowsAt(p, d, t),
                     service_providers[p].max_concurrent_jobs>>
              ELSE IF InsideWindow(p, d, t)
              THEN <<FALSE, "Provider unavailable at this time">>
              ELSE <<TRUE, "">>

\* provider 3 at date 0, 09:30: one job of one, inside its record from 09:30
C12_Witness ==
    /\ calc.fn = "check_slot_available"
    /\ calc.provider_id = 3 /\ calc.slot_date = 0
    /\ calc.slot_time = TimeStr(9, 30)
    /\ InsideWindow(3, 0, Hour(9) + SlotMinutes)
    /\ calc.out = <<FALSE, "Provider at capacity", 1, 1>>

OverlapsWindow(p, d, t) ==
    \E a \in provider_availability :
        /\ a.provider_id = p /\ a.date = d /\ ~a.is_available
        /\ a.start_time < t + SlotMinutes /\ t < a.end_time

\* C13: no slot row written by a create_booking call covers a half hour
\* [t, t+30) that overlaps an unavailability record of the row's provider
\* and date, whatever the provider's spare capacity and also when the
\* record starts strictly between t and t+30.
C13_NoBookingInsideWindow ==
    [][ (Handled /\ last'.status = 201) =>
          \A i \in 1..Len(booking_time_slots') :
             booking_time_slots'[i].booking_id = last'.booking_id =>
               ~OverlapsWindow(booking_time_slots'[i].provider_id,
                               booking_time_slots'[i].slot_date,
                               booking_time_slots'[i].slot_time) ]_vars

\* the packages a bundle includes
IncludedIn(k) ==
    { bi.included_package_id : bi \in { x \in bundle_items : x.bundle_package_id = k } }

\* the active providers offering every included package of bundle k, and
\* at least one
BundleEligible(k) ==
    { p \in DOMAIN service_providers :
        /\ service_providers[p].is_active
        /\ IncludedIn(k) # {}
        /\ \A j \in IncludedIn(k) : Offers(p, j) }

\* the active providers with an available provider_services row for package k
SingleEligible(k) ==
    { p \in DOMAIN service_providers :
        /\ service_providers[p].is_active
        /\ [provider_id |-> p, package_id |-> k, is_available |-> TRUE]
             \in provider_services }

\* a create_booking call without provider_id for a package of the given
\* type has just been handled, past validation
AutoAssigned(type) ==
    /\ Handled
    /\ last'.req_provider_id = NoProvider
    /\ last'.package_id \in DOMAIN service_packages
    /\ service_packages[last'.package_id].package_type = type
    /\ last'.error \notin ValidationErrors

\* get_available_slots has answered a query without provider_id for a
\* package of the given type
Listed(type) ==
    /\ calc.fn = "get_available_slots"
    /\ calc.status = 200
    /\ calc.provider_id = NoProvider
    /\ service_packages[calc.package_id].package_type = type

\* C15: for a bundle, get_available_slots without provider_id goes through
\* exactly the active providers that offer every included package of the
\* bundle and at least one, each of them once, and create_booking without
\* provider_id books with one of them, or fails with "No available
\* providers" when there is none; a provider offering two of three
\* included packages is left out, a bundle without items has no provider.
C15_BundleEligibility ==
    [][ /\ Listed("bundle")' =>
             /\ BagToSet(calc'.provider_ids) = BundleEligible(calc'.package_id)
             /\ \A p \in BundleEligible(calc'.package_id) :
                   CopiesIn(p, calc'.provider_ids) = 1
             /\ IncludedIn(calc'.package_id) = {} =>
                   calc'.provider_ids = EmptyBag
        /\ AutoAssigned("bundle") =>
             IF BundleEligible(last'.package_id) = {}
             THEN /\ last'.status = 404
                  /\ last'.error = "No available providers"
                  /\ UNCHANGED <<tables, booking_seq>>
             ELSE /\ last'.provider_id \in BundleEligible(last'.package_id)
                  /\ last'.status = 201 =>
                        \E b \in bookings' :
                           /\ b.booking_id = last'.booking_id
                           /\ b.provider_id \in BundleEligible(last'.package_id)
      ]_vars

\* bundle 6 includes packages 4, 10 and 11; provider 1 offers the three,
\* provider 2 offers 10 and 11; bundle 8 includes 10 and 11 too. Bundle 6
\* has been booked, with provider 1, and is then listed.
C15_Witness ==
    /\ calc.fn = "get_available_slots"
    /\ calc.package_id = 6 /\ calc.provider_id = NoProvider
    /\ IncludedIn(6) = {4, 10, 11}
    /\ IncludedIn(8) = {10, 11}
    /\ Cardinality({ j \in IncludedIn(6) : Offers(2, j) }) = 2
    /\ CopiesIn(1, calc.provider_ids) = 1
    /\ CopiesIn(2, calc.provider_ids) = 0
    /\ \E b \in bookings : b.package_id = 6 /\ b.provider_id = 1

\* C16: for a single package, get_available_slots without provider_id goes
\* through exactly the active providers with an available provider_services
\* row for that package id, and answers 200 with an empty slot list when
\* there is none; create_booking without provider_id books with one of
\* them, or fails with "No available providers" and writes nothing when
\* there is none.
C16_SingleEligibility ==
    [][ /\ Listed("single")' =>
             /\ BagToSet(calc'.provider_ids) = SingleEligible(calc'.package_id)
             /\ SingleEligible(calc'.package_id) = {} =>
                   /\ calc'.available_slots = <<>>
                   /\ calc'.error = ""
        /\ ( /\ calc'.fn = "get_available_slots"
             /\ calc'.provider_id = NoProvider
             /\ calc'.date >= Today
             /\ calc'.package_id \in DOMAIN service_packages )
             => calc'.status = 200
        /\ AutoAssigned("single") =>
             IF SingleEligible(last'.package_id) = {}
             THEN /\ last'.status = 404
                  /\ last'.error = "No available providers"
                  /\ last'.writes = 0
                  /\ UNCHANGED <<tables, booking_seq>>
             ELSE /\ last'.provider_id \in SingleEligible(last'.package_id)
                  /\ last'.status = 201 =>
                        \E b \in bookings' :
                           /\ b.booking_id = last'.booking_id
                           /\ b.provider_id \in SingleEligible(last'.package_id)
      ]_vars

\* package 5 is offered by the inactive provider 4 only: the call without
\* provider_id fails and the bookings are those of the start
C16_Witness ==
    /\ last.pc = "done"
    /\ last.package_id = 5 /\ last.req_provider_id = NoProvider
    /\ Offers(4, 5) /\ ~service_providers[4].is_active
    /\ last.status = 404
    /\ last.error = "No available providers"
    /\ bookings = {SeedBooking, PriorBooking}

\* the slot rows of the booking just created, in the order of their insertion
NewRows ==
    SelectSeq(booking_time_slots',
              LAMBDA row : row.booking_id = last'.booking_id)

\* the times of day the booking just created holds on date d, in the order
\* of their insertion
NewTimesOn(d) ==
    LET rows == SelectSeq(NewRows, LAMBDA row : row.slot_date = d)
    IN  [i \in 1..Len(rows) |-> rows[i].slot_time]

NewDates == { NewRows[i].slot_date : i \in 1..Len(NewRows) }

\* a call has just created a booking
Created == Handled /\ last'.status = 201

\* C17: every slot row written by a create_booking call, on the first day
\* and on the days after it, has a time of day from working_hours_start
\* (included) to working_hours_end (excluded) of the booking's provider.
C17_WithinWorkingHours ==
    [][ (Created /\ last'.provider_id \in DOMAIN service_providers) =>
          \A i \in 1..Len(NewRows) :
             /\ service_providers[last'.provider_id].working_hours_start
                  <= NewRows[i].slot_time
             /\ NewRows[i].slot_time
                  < service_providers[last'.provider_id].working_hours_end
      ]_vars

\* C18: on every date on which a new booking holds slots, its times of day
\* are those of the day's candidates from the first on (the requested start
\* time on the first date, 09:00 on a later one), each 30 minutes after the
\* one before it, with no candidate left out.
C18_ContiguousWithinDay ==
    [][ Created =>
          \A d \in NewDates :
             LET times == NewTimesOn(d)
             IN  /\ times[1] = IF d = last'.req_start_date
                               THEN TimeOf(last'.req_start_time)
                               ELSE Hour(9)
                 /\ \A i \in 1..(Len(times) - 1) :
                       times[i + 1] = times[i] + SlotMinutes ]_vars

\* C19: on every date on which a new booking holds slots, its times of day
\* increase strictly in the order of reservation, so that none is earlier
\* than the first of that date: a run never goes on past 24:00 into 00:00
\* of the same date.
C19_NoWrapPastMidnight ==
    [][ Created =>
          \A d \in NewDates :
             LET times == NewTimesOn(d)
             IN  /\ \A i \in 1..(Len(times) - 1) : times[i] < times[i + 1]
                 /\ \A i \in 1..Len(times) : times[1] <= times[i] ]_vars

\* C20: a create_booking call for a known package naming a provider_id that
\* no service_providers row has ends with the not-found error "Provider not
\* found" (404) and leaves every table and the id sequence as they were.
C20_UnknownProviderNotFound ==
    [][ ( /\ Handled
          /\ last'.error \notin ValidationErrors
          /\ last'.package_id \in DOMAIN service_packages
          /\ last'.req_provider_id # NoProvider
          /\ last'.req_provider_id \notin DOMAIN service_providers ) =>
          /\ last'.status = 404
          /\ last'.error = "Provider not found"
          /\ UNCHANGED <<tables, booking_seq>> ]_vars

\* C21: a call of get_available_slots, whatever its package_id, provider_id
\* and date (known or not, past or not), leaves bookings, booking_time_slots
\* and provider_availability as they were, as well as every other table and
\* the id sequence: all that a later create_booking call reads, which ends
\* as it would have ended without the listing.
C21_ListingReservesNothing ==
    [][ (calc.fn = "none" /\ calc'.fn = "get_available_slots") =>
          /\ UNCHANGED <<bookings, booking_time_slots, provider_availability>>
          /\ UNCHANGED <<catalog, tables, booking_seq>> ]_vars

\* package 1 listed for provider 1 on date 1 with start times to offer,
\* the slot rows being those of the start
C21_Witness ==
    /\ calc.fn = "get_available_slots"
    /\ calc.package_id = 1 /\ calc.provider_id = 1 /\ calc.date = 1
    /\ calc.status = 200
    /\ Len(calc.available_slots) > 0
    /\ booking_time_slots = SeedSlots \o PriorSlots

\* C22: the dates of a new booking are consecutive days from the requested
\* start date; its slots of the first date begin at the requested start
\* time and those of every later date at 09:00, whatever the provider's
\* working_hours_start; a call gives up on a date ("No availability on
\* date") only when that date yielded no slot.
C22_SpilloverRestart ==
    [][ /\ Created =>
             /\ NewDates = last'.req_start_date ..
                             (last'.req_start_date + Cardinality(NewDates) - 1)
             /\ \A d \in NewDates :
                   NewTimesOn(d)[1] = IF d = last'.req_start_date
                                      THEN TimeOf(last'.req_start_time)
                                      ELSE Hour(9)
        /\ (Handled /\ last'.error = "No availability on date") =>
             /\ last'.day_slots_booked = 0
             /\ \A i \in 1..Len(last'.slots_to_book) :
                   last'.slots_to_book[i][1] < last'.current_date ]_vars

\* provider 2 works from 08:00; asked for 09:30 on date 0, where it is
\* unavailable from 10:00, the booking goes on at 09:00 of date 1
C22_Witness ==
    /\ last.pc = "done" /\ last.status = 201
    /\ last.req_provider_id = 2 /\ last.req_start_date = 0
    /\ last.req_start_time = <<"9", ":", "3", "0">>
    /\ service_providers[2].working_hours_start = Hour(8)
    /\ last.slots_to_book =
         << <<0, TimeStr(9, 30)>>, <<1, TimeStr(9, 0)>>, <<1, TimeStr(9, 30)>> >>
    /\ \E i \in 1..Len(booking_time_slots) :
          /\ booking_time_slots[i].booking_id = last.booking_id
          /\ booking_time_slots[i].slot_date = 1
          /\ booking_time_slots[i].slot_time = Hour(9)

\* the dates on which a call had reserved slots when it ended
DatesTried(l) == { l.slots_to_book[i][1] : i \in 1..Len(l.slots_to_book) }

\* C23: a new booking holds at most 20 slots on a date, slots on at most 30
\* dates and so at most 600 slots; a call ends with "Not enough
\* availability within 30 days" exactly when each of the 30 days from the
\* start date yielded a slot and slots remain; a package of more than 600
\* slots is never booked.
C23_AllocationBounds ==
    [][ Handled =>
          /\ Created =>
                /\ \A d \in NewDates : Len(NewTimesOn(d)) <= MaxSlotsPerDay
                /\ Cardinality(NewDates) <= max_days
                /\ Len(NewRows) <= MaxSlotsPerDay * max_days
          /\ last'.error = "Not enough availability within 30 days" <=>
                /\ last'.remaining_slots > 0
                /\ DatesTried(last') =
                     last'.req_start_date .. (last'.req_start_date + max_days - 1)
          /\ last'.required_slots > MaxSlotsPerDay * max_days =>
                last'.status # 201 ]_vars

\* the package of 601 slots asked of provider 1, free from date 1 on: 600
\* slots found in 30 days, one missing, nothing written
C23_Witness ==
    /\ last.pc = "done"
    /\ last.package_id = 12 /\ last.req_provider_id = 1
    /\ last.required_slots = MaxSlotsPerDay * max_days + 1
    /\ Len(last.slots_to_book) = MaxSlotsPerDay * max_days
    /\ last.error = "Not enough availability within 30 days"
    /\ last.writes = 0
    /\ bookings = {SeedBooking, PriorBooking}

RECURSIVE ChecksThenInserts(_, _, _)
\* from position l of a call on: no statement reads the store once one has
\* written to it, and no slot row is written before the booking row
ChecksThenInserts(l, seq, pick) ==
    IF l.pc = "done" THEN TRUE
    ELSE LET n == Step(l, seq, pick)
         IN  /\ l.writes > 0 => n.reads = l.reads
             /\ n.tx_slots # <<>> => n.tx_bookings # {}
             /\ n.tx_bookings # {} => n.connected
             /\ ChecksThenInserts(n, seq, pick)

\* (date, time) of the first pair is before that of the second
Earlier(a, b) ==
    \/ a[1] < b[1]
    \/ a[1] = b[1] /\ TimeOf(a[2]) < TimeOf(b[2])

\* C24: within a create_booking call every availability check comes before
\* the booking insert, which comes before every slot insert; the reserved
\* list is strictly increasing in (date, time of day); the slot rows are
\* inserted in the order of that list; and the booking row and its slot
\* rows are committed together by the transaction of the call.
C24_OrderWithinBooking ==
    [][ /\ Handled =>
             ChecksThenInserts(
                 NewRequest(last'.package_id, last'.req_provider_id,
                            last'.req_start_date, last'.req_start_time,
                            last'.urgent_item_id, last'.raise_at),
                 booking_seq,
                 IF last'.req_provider_id = NoProvider THEN last'.provider_id
                 ELSE NoProvider)
        /\ Created =>
             LET list == last'.slots_to_book
             IN  /\ \A i \in 1..(Len(list) - 1) : Earlier(list[i], list[i + 1])
                 /\ Len(NewRows) = Len(list)
                 /\ \A i \in 1..Len(list) :
                       /\ NewRows[i].slot_date = list[i][1]
                       /\ NewRows[i].slot_time = TimeOf(list[i][2])
                 /\ \A i \in 1..Len(booking_time_slots) :
                       booking_time_slots[i].booking_id # last'.booking_id
                 /\ \A b \in bookings : b.booking_id # last'.booking_id
                 /\ \E b \in bookings' : b.booking_id = last'.booking_id
      ]_vars

\* the call just handled has committed its booking row and a slot row for
\* every reserved slot
BookingCommitted ==
    /\ last'.status = 201
    /\ \E b \in bookings' \ bookings : b.booking_id = last'.booking_id
    /\ Len(NewRows) = Len(last'.slots_to_book)
    /\ Len(booking_time_slots') = Len(booking_time_slots) + Len(NewRows)

\* C25: a call carrying urgent_item_id commits the link of its booking to
\* the item, and the item's is_resolved = true, if and only if it commits
\* the booking and all its slot rows, in the same step; a call without
\* urgent_item_id changes no work item and writes no link; a call that
\* fails marks no item resolved.
C25_WorkItemLinkAtomic ==
    [][ Handled =>
          LET item == last'.urgent_item_id
              link == [booking_id |-> last'.booking_id, urgent_item_id |-> item]
          IN  /\ item # NoItem =>
                    /\ link \in booking_urgent_items' <=> BookingCommitted
                    /\ BookingCommitted =>
                          /\ urgent_work_items'[item] = TRUE
                          /\ booking_urgent_items' = booking_urgent_items \cup {link}
                          /\ link \notin booking_urgent_items
                    /\ ~BookingCommitted =>
                          UNCHANGED <<urgent_work_items, booking_urgent_items,
                                      bookings, booking_time_slots>>
              /\ item = NoItem =>
                    UNCHANGED <<urgent_work_items, booking_urgent_items>>
              /\ last'.status # 201 =>
                    UNCHANGED <<urgent_work_items, booking_urgent_items>> ]_vars

\* a booking of three slots made for work item 1: its link row is there and
\* the item is resolved
C25_Witness ==
    /\ last.pc = "done" /\ last.status = 201
    /\ last.urgent_item_id = 1
    /\ last.slots_reserved = 3
    /\ [booking_id |-> last.booking_id, urgent_item_id |-> 1]
         \in booking_urgent_items
    /\ urgent_work_items[1] = TRUE
    /\ Cardinality(RowsOf(last.booking_id)) = 3

\* C26: no booking holds two rows of booking_time_slots with the same
\* (slot_date, slot_time); so at every (provider, date, time) of a row the
\* number of distinct bookings the capacity check counts is the number of
\* 'booked' rows at that key.
C26_OneRowPerSlot ==
    /\ \A i, j \in 1..Len(booking_time_slots) :
          (/\ booking_time_slots[i].booking_id = booking_time_slots[j].booking_id
           /\ booking_time_slots[i].slot_date = booking_time_slots[j].slot_date
           /\ booking_time_slots[i].slot_time = booking_time_slots[j].slot_time)
          => i = j
    /\ \A i \in 1..Len(booking_time_slots) :
          LET row == booking_time_slots[i]
          IN  Cardinality(HoldersAt(row.provider_id, row.slot_date, row.slot_time))
                = BookedRowsAt(row.provider_id, row.slot_date, row.slot_time)

\* a committed booking that spilled: it holds rows on two dates, two of them
\* at the same time of day
C26_Witness ==
    /\ last.pc = "done" /\ last.status = 201
    /\ \E i, j \in RowsOf(last.booking_id) :
          /\ booking_time_slots[i].slot_date < booking_time_slots[j].slot_date
          /\ booking_time_slots[i].slot_time = booking_time_slots[j].slot_time

\* the request of the call just handled
RequestOf(l) ==
    [ package_id |-> l.package_id, provider_id |-> l.req_provider_id,
      start_date |-> l.req_start_date, start_time |-> l.req_start_time,
      urgent_item_id |-> l.urgent_item_id ]

\* the call just handled asked for a start time of the listing in calc, and
\* that listing is what get_available_slots answers on the tables the call
\* found; no database error was raised during the call
BookedFromListing ==
    /\ Handled
    /\ last'.raise_at = 0
    /\ ListedIn(RequestOf(last'), calc)
    /\ calc = get_available_slots(calc.package_id, calc.provider_id, calc.date)

\* C27: when get_available_slots lists start time s for a package of
\* N <= 20 slots, provider P and date D, then create_booking for that
\* package, P, D and s, on the same tables and with a customer user,
\* answers 201 and reserves exactly generate_slot_times(s, N) on date D for
\* P, nothing on another date.
C27_ListedSlotBookable ==
    [][ ( /\ BookedFromListing
          /\ calc.provider_id # NoProvider
          /\ calc.required_slots <= MaxSlotsPerDay
          /\ customer_users # {} )
        => LET slot_times == generate_slot_times(last'.req_start_time,
                                                 calc.required_slots)
           IN  /\ last'.status = 201
               /\ last'.slots_reserved = calc.required_slots
               /\ last'.slots_to_book =
                     [i \in 1..calc.required_slots |-> <<calc.date, slot_times[i]>>]
               /\ Len(NewRows) = calc.required_slots
               /\ \A i \in 1..Len(NewRows) :
                     /\ NewRows[i].provider_id = calc.provider_id
                     /\ NewRows[i].slot_date = calc.date
                     /\ NewRows[i].slot_time = SqlTime(slot_times[i])
                     /\ NewRows[i].status = "booked"
               /\ Len(booking_time_slots') =
                     Len(booking_time_slots) + calc.required_slots ]_vars

\* provider 2, who already holds a booking on date 1 from 09:00, is listed
\* at 09:00 for package 1 and the booking made from that listing is there
C27_Witness ==
    /\ last.pc = "done" /\ last.status = 201
    /\ ListedIn(RequestOf(last), calc)
    /\ calc.provider_id = 2 /\ calc.package_id = 1 /\ calc.required_slots = 3
    /\ last.req_start_time = TimeStr(9, 0)
    /\ booking_seq = 3
    /\ Len(booking_time_slots) = Len(SeedSlots) + Len(PriorSlots) + 3
    /\ Cardinality(HoldersAt(2, 1, Hour(9))) = 2

\* C28: when get_available_slots without provider_id lists start time s
\* for a package and date D (some eligible provider has the whole run
\* free), then create_booking for that package, D and s without
\* provider_id, on the same tables and with a customer user, answers 201.
C28_ListedSlotAutoBookable ==
    [][ ( /\ BookedFromListing
          /\ calc.provider_id = NoProvider
          /\ customer_users # {} )
        => /\ last'.status = 201
           /\ Len(NewRows) > 0 ]_vars

\* the providers the claim calls eligible for package k
EligibleFor(k) ==
    IF k \notin DOMAIN service_packages THEN {}
    ELSE IF service_packages[k].package_type = "bundle" THEN BundleEligible(k)
    ELSE SingleEligible(k)

\* the call just handled named a provider and its booking is committed
BookedWithNamedProvider ==
    /\ Handled
    /\ last'.status = 201
    /\ last'.req_provider_id # NoProvider

\* get_available_slots has just answered a query naming a provider with at
\* least one start time
ListedForNamedProvider ==
    /\ calc.fn = "none"
    /\ calc'.fn = "get_available_slots"
    /\ calc'.provider_id # NoProvider
    /\ calc'.available_slots # <<>>

\* C29: the provider of every booking that is committed is, at that time,
\* active and offers (is_available = true) the booking's package, or every
\* included package of a bundle; so create_booking with provider_id answers
\* 201 only for such a provider, and get_available_slots with provider_id
\* lists start times only for such a provider.
C29_ProviderEligible ==
    [][ /\ \A b \in bookings' \ bookings :
              b.provider_id \in EligibleFor(b.package_id)
        /\ BookedWithNamedProvider =>
              last'.req_provider_id \in EligibleFor(last'.package_id)
        /\ ListedForNamedProvider =>
              calc'.provider_id \in EligibleFor(calc'.package_id) ]_vars

\* the run of n slots from start time s lies within the working hours of
\* provider pid: each slot begins at or after working_hours_start and ends
\* at or before working_hours_end
RunWithinHours(pid, s, n) ==
    LET slot_times == generate_slot_times(s, n)
    IN  /\ TimeOf(s) < service_providers[pid].working_hours_end
        /\ \A j \in 1..Len(slot_times) :
              /\ TimeOf(slot_times[j]) >= service_providers[pid].working_hours_start
              /\ TimeOf(slot_times[j]) + SlotMinutes
                    <= service_providers[pid].working_hours_end

\* C30: every start time s that get_available_slots lists for a package of
\* N slots is one for which a provider of the query has every slot of
\* generate_slot_times(s, N) within its working hours; in particular s is
\* before that provider's working_hours_end.
C30_ListingWithinWorkingHours ==
    (calc.fn = "get_available_slots" /\ calc.status = 200) =>
        \A i \in 1..Len(calc.available_slots) :
           \E pid \in BagToSet(calc.provider_ids) \cap DOMAIN service_providers :
              RunWithinHours(pid, calc.available_slots[i].start_time,
                             calc.required_slots)

====
